---- MODULE Spec2Model ----
(***************************************************************************)
(* Model of the konnektaro-recorder widget: the useAudioRecorder hook, the *)
(* apiClient functions transcribeAudio / testConnection and the            *)
(* KonnektaroAudioRecorder component that composes them.                   *)
(*                                                                         *)
(* React state is split in two records: `st` holds the latest value of     *)
(* every useState cell (what setX wrote), `view` holds the values of the   *)
(* last committed render, i.e. what the closures of the handlers and the   *)
(* effect dependency arrays see.  Refs and platform objects (streams,      *)
(* MediaRecorders, recognizers, requests in flight) are plain variables.   *)
(***************************************************************************)
EXTENDS Integers, Sequences, FiniteSets, TLC

VARIABLES st, view, mounted, speechSupported,
          mediaRecorderRef, audioChunksRef, timerRef, timers,
          streams, recorders, pendPerm, pendStream,
          probes, nProbes, attempts, attemptLog, recognizers,
          callsMade, lastEvent, nInputs, nHostRenders, pendCheck, resetUpTo, api

vars == <<st, view, mounted, speechSupported,
          mediaRecorderRef, audioChunksRef, timerRef, timers,
          streams, recorders, pendPerm, pendStream,
          probes, nProbes, attempts, attemptLog, recognizers,
          callsMade, lastEvent, nInputs, nHostRenders, pendCheck, resetUpTo, api>>

\* what only the direct callers of the hook and of apiClient.ts move: the
\* requestPermission calls in flight that no startRecording awaits, the
\* number of recorders that existed at the last resetRecording, and the call
\* of an apiClient function with its arguments and outcome
harness == <<pendCheck, resetUpTo, api>>

(***************************************************************************)
(* Bounds of the exploration.                                              *)
(***************************************************************************)
\* inputs of a behaviour: clicks on the control plus prop changes by the host.
\* Everything else (permission prompts, streams, recorder and recognizer
\* events, probes, transcription requests) follows from them and is finite.
MaxInputs == 4

\* of which renders by the host with new props or new callback functions
MaxHostRenders == 2

\* of which clicks on the control
MaxClicks == 3

\* inputs of a behaviour explored under the fairness conditions
MaxLiveInputs == 3

\* non-empty chunks the recorders deliver in one behaviour
MaxChunks == 1

\* event.data.size of a chunk: empty or not
ChunkSizes == {0, 1}

(***************************************************************************)
(* Input domains.                                                          *)
(***************************************************************************)
\* a token is the sequence of its characters; the empty string is <<>>
NoToken == <<>>
Tok == <<"t", "k">>

\* the (apiUrl, token) props a host passes: none, endpoint only, endpoint and token
PropValues == {<<"", NoToken>>, <<"https://api.test", NoToken>>, <<"https://api.test", Tok>>}

\* strings the platform and the server can supply
PermissionDeniedMsg == "Permission denied"
DeviceErrorMsg == "Requested device not found"
RecorderErrorMsg == "mimeType not supported"
CallbackThrewMsg == "callback threw"
SetupErrorMsg == "Invalid URL"
NullBodyMsg == "Cannot read properties of null (reading 'data')"
Absent == "absent"
TranscriptionFields == {Absent, "hello world"}
TextFields == {Absent, "hi"}
NestedTextFields == {Absent, "hey"}
ErrorFields == {Absent, "overloaded"}
MessageFields == {Absent, "busy"}
RecognizerErrors == {"no-speech"}

NoApiCall == [fn |-> "none"]
NoBlob == [id |-> 0]
NoCalls == <<>>

\* useState initial values: hook lines 20-25 (hookError is the hook's error
\* cell; recordingTime, which only the timer ticks, is left out), component
\* lines 181-188
InitialState ==
    [isRecording |-> FALSE, hasPermission |-> "null",
     hookError |-> "null", audioBlob |-> NoBlob, audioUrl |-> 0,
     apiUrl |-> "", token |-> NoToken, error |-> "", isTranscribing |-> FALSE,
     connectionStatus |-> "checking", useSpeechAPI |-> FALSE,
     speechRecognition |-> 0, isListening |-> FALSE]

\* the values a render hands to the closures and dependency arrays: the
\* state cells the hook's callbacks and the component read (hook lines 119,
\* 127, 145; component lines 190-196 and 316-396) plus the props
Snapshot(s, pApiUrl, pToken) ==
    [isRecording |-> s.isRecording, hasPermission |-> s.hasPermission,
     audioBlob |-> s.audioBlob, audioUrl |-> s.audioUrl,
     apiUrl |-> s.apiUrl, token |-> s.token,
     isTranscribing |-> s.isTranscribing,
     connectionStatus |-> s.connectionStatus, useSpeechAPI |-> s.useSpeechAPI,
     speechRecognition |-> s.speechRecognition, isListening |-> s.isListening,
     propApiUrl |-> pApiUrl, propToken |-> pToken]

\* JavaScript truthiness of a string-valued field
Truthy(x) == x # Absent /\ x # ""

(***************************************************************************)
(* apiClient.ts                                                            *)
(***************************************************************************)
\* what the network can answer to one request
HttpStatuses == {200, 401, 404, 500}
OkStatus(status) == status >= 200 /\ status < 300

\* the `data` member of a response body: left out, the JSON value null, a
\* string, or an object with the given fields
Nested(kind, transcription, text) ==
    [kind |-> kind, transcription |-> transcription, text |-> text]
NoNested == Nested("absent", Absent, Absent)

\* a response whose body is a JSON object with the given fields
Response(kind, status, transcription, text, error, message) ==
    [kind |-> kind, status |-> status, body |-> "object",
     transcription |-> transcription,
     text |-> text, error |-> error, message |-> message, nested |-> NoNested]

\* a response whose body is the JSON value null
NullBody(status) ==
    [kind |-> "response", status |-> status, body |-> "null",
     transcription |-> Absent, text |-> Absent, error |-> Absent,
     message |-> Absent, nested |-> NoNested]

\* 2xx bodies, error bodies of a 500, a bare 404, a 200 with a null body, and
\* the two failures without a response (nothing came back; the request could
\* not be built)
Responses ==
    { Response("response", 200, t, x, Absent, Absent) :
          t \in TranscriptionFields, x \in TextFields }
    \cup
    { Response("response", 500, Absent, Absent, e, m) :
          e \in ErrorFields, m \in MessageFields }
    \cup
    { Response("response", 404, Absent, Absent, Absent, Absent),
      NullBody(200),
      Response("noresponse", 0, Absent, Absent, Absent, Absent),
      Response("setup", 0, Absent, Absent, Absent, Absent) }

\* the values of the `data` member of a 2xx body
NestedValues ==
    { Nested("object", t, x) : t \in TranscriptionFields, x \in NestedTextFields }
    \cup { Nested("null", Absent, Absent), Nested("string", Absent, Absent) }

\* 2xx bodies that carry a `data` member
NestedResponses ==
    { [Response("response", 200, t, x, Absent, Absent) EXCEPT !.nested = n] :
          t \in TranscriptionFields, x \in TextFields, n \in NestedValues }

\* 2xx bodies in which the server reports a failure: an error field, with
\* or without a transcription next to it
FailureBodies ==
    { Response("response", 200, t, Absent, e, Absent) :
          t \in TranscriptionFields, e \in ErrorFields \ {Absent} }

\* what the network can answer to a direct call of transcribeAudio
ApiResponses == Responses \cup NestedResponses \cup FailureBodies

\* what the health request of a probe can meet
ProbeOutcomes ==
    { Response("response", status, Absent, Absent, Absent, Absent) :
          status \in HttpStatuses }
    \cup
    { Response("noresponse", 0, Absent, Absent, Absent, Absent),
      Response("setup", 0, Absent, Absent, Absent, Absent) }

\* String.prototype.trim of lines 28 and 86
\* (trim strips every WhiteSpace and LineTerminator code point of ECMAScript;
\* a code point without an escape of its own is written by its name)
Whitespace ==
    {" ", "\t", "\n", "\r", "\f", "U+000B", "U+00A0", "U+1680", "U+2000",
     "U+2001", "U+2002", "U+2003", "U+2004", "U+2005", "U+2006", "U+2007",
     "U+2008", "U+2009", "U+200A", "U+2028", "U+2029", "U+202F", "U+205F",
     "U+3000", "U+FEFF"}

RECURSIVE TrimStart(_)
TrimStart(t) ==
    IF t # <<>> /\ Head(t) \in Whitespace THEN TrimStart(Tail(t)) ELSE t

RECURSIVE TrimEnd(_)
TrimEnd(t) ==
    IF t # <<>> /\ t[Len(t)] \in Whitespace
    THEN TrimEnd(SubSeq(t, 1, Len(t) - 1)) ELSE t

Trim(t) == TrimEnd(TrimStart(t))

\* the default value of the token parameter, lines 13 and 80
TokenArg(given, token) == IF given THEN token ELSE NoToken

BearerPrefix == <<"B", "e", "a", "r", "e", "r", " ">>
NoHeader == [present |-> FALSE, value |-> <<>>]

\* the headers built with the Authorization header attached whatever the token
AuthHeaderAlways(token) == [present |-> TRUE, value |-> BearerPrefix \o token]

\* the Authorization entry of the headers object, lines 23-30 and 83-88
AuthHeader(token) ==
    IF token # <<>> /\ Trim(token) # <<>>
    THEN [present |-> TRUE, value |-> BearerPrefix \o token]
    ELSE NoHeader

\* line 40 without the nested shape: always the body itself
DataFlatOnly(r) == r

\* line 40, response.data.data || response.data: the `data` member when it
\* is truthy (an object, a non-empty string), otherwise the body
Data(r) == IF r.nested.kind \in {"object", "string"} THEN r.nested ELSE r

\* line 41, data.transcription || data.text || ''
Transcription(data) ==
    IF Truthy(data.transcription) THEN data.transcription
    ELSE IF Truthy(data.text) THEN data.text ELSE ""

\* transcribeAudio with the catch of line 59 reporting the status code only
TranscribeAudioStatusOnly(r) ==
    IF r.kind = "response" /\ OkStatus(r.status) /\ r.body = "null"
    THEN [transcription |-> "", success |-> FALSE, error |-> NullBodyMsg]
    ELSE IF r.kind = "response" /\ OkStatus(r.status)
    THEN [transcription |-> Transcription(Data(r)),
          success |-> TRUE, error |-> Absent]
    ELSE IF r.kind = "response"
    THEN [transcription |-> "", success |-> FALSE,
          error |-> "HTTP " \o ToString(r.status)]
    ELSE IF r.kind = "noresponse"
    THEN [transcription |-> "", success |-> FALSE,
          error |-> "Network error - no response from server"]
    ELSE [transcription |-> "", success |-> FALSE, error |-> SetupErrorMsg]

\* transcribeAudio without the error.request branch of lines 60-62
TranscribeAudioNoRequestCheck(r) ==
    IF r.kind = "response" /\ OkStatus(r.status) /\ r.body = "null"
    THEN [transcription |-> "", success |-> FALSE, error |-> NullBodyMsg]
    ELSE IF r.kind = "response" /\ OkStatus(r.status)
    THEN [transcription |-> Transcription(Data(r)),
          success |-> TRUE, error |-> Absent]
    ELSE IF r.kind = "response"
    THEN [transcription |-> "", success |-> FALSE,
          error |-> IF Truthy(r.error) THEN r.error
                    ELSE IF Truthy(r.message) THEN r.message
                    ELSE "HTTP " \o ToString(r.status)]
    ELSE [transcription |-> "", success |-> FALSE, error |-> SetupErrorMsg]

\* transcribeAudio reading data.text before data.transcription in line 41
TranscribeAudioTextFirst(r) ==
    IF r.kind = "response" /\ OkStatus(r.status) /\ r.body = "null"
    THEN [transcription |-> "", success |-> FALSE, error |-> NullBodyMsg]
    ELSE IF r.kind = "response" /\ OkStatus(r.status)
    THEN [transcription |-> IF Truthy(Data(r).text) THEN Data(r).text
                            ELSE IF Truthy(Data(r).transcription)
                            THEN Data(r).transcription
                            ELSE "",
          success |-> TRUE, error |-> Absent]
    ELSE IF r.kind = "response"
    THEN [transcription |-> "", success |-> FALSE,
          error |-> IF Truthy(r.error) THEN r.error
                    ELSE IF Truthy(r.message) THEN r.message
                    ELSE "HTTP " \o ToString(r.status)]
    ELSE IF r.kind = "noresponse"
    THEN [transcription |-> "", success |-> FALSE,
          error |-> "Network error - no response from server"]
    ELSE [transcription |-> "", success |-> FALSE, error |-> SetupErrorMsg]

\* transcribeAudio, apiClient.ts lines 10-77
TranscribeAudio(r) ==
    IF r.kind = "response" /\ OkStatus(r.status) /\ r.body = "null"
    THEN [transcription |-> "", success |-> FALSE, error |-> NullBodyMsg]
    ELSE IF r.kind = "response" /\ OkStatus(r.status)
    THEN [transcription |-> Transcription(Data(r)),
          success |-> TRUE, error |-> Absent]
    ELSE IF r.kind = "response"
    THEN [transcription |-> "", success |-> FALSE,
          error |-> IF Truthy(r.error) THEN r.error
                    ELSE IF Truthy(r.message) THEN r.message
                    ELSE "HTTP " \o ToString(r.status)]
    ELSE IF r.kind = "noresponse"
    THEN [transcription |-> "", success |-> FALSE,
          error |-> "Network error - no response from server"]
    ELSE [transcription |-> "", success |-> FALSE, error |-> SetupErrorMsg]

\* testConnection without the check of lines 97-99: an error status counts
\* as unreachable
TestConnectionOkOnly(r) == r.kind = "response" /\ OkStatus(r.status)

\* testConnection, apiClient.ts lines 80-103
TestConnection(r) ==
    IF r.kind = "response" /\ OkStatus(r.status) THEN TRUE
    ELSE IF r.kind = "response" THEN TRUE
    ELSE FALSE

(***************************************************************************)
(* KonnektaroAudioRecorder.tsx: derived values                             *)
(***************************************************************************)
\* isDisabled, lines 387-396, evaluated on the values v of a render
IsDisabled(v) ==
    IF v.useSpeechAPI
    THEN v.connectionStatus = "error" \/ v.connectionStatus = "checking"
    ELSE \/ v.hasPermission = "false"
         \/ v.connectionStatus = "error"
         \/ v.isTranscribing
         \/ v.connectionStatus = "checking"

\* getCurrentColors, lines 226-237: the color set a render displays
GetCurrentColors(v) ==
    IF IsDisabled(v) THEN "disabled"
    ELSE IF v.isTranscribing THEN "transcribing"
    ELSE IF v.isRecording \/ v.isListening THEN "active"
    ELSE "idle"

\* initializeConfig, lines 258-279: the state after its setX calls
InitializeConfig(s, pApiUrl, pToken, supported) ==
    IF pApiUrl # ""
    THEN [s EXCEPT !.apiUrl = pApiUrl, !.token = pToken,
                   !.useSpeechAPI = FALSE, !.error = ""]
    ELSE IF supported
    THEN [s EXCEPT !.useSpeechAPI = TRUE, !.error = ""]
    ELSE [s EXCEPT !.useSpeechAPI = FALSE,
                   !.error = "No API configuration provided and Speech Recognition API is not supported in this browser."]

\* a callback invocation
Call(cb, arg) == [cb |-> cb, arg |-> arg]

\* handleTranscribe dropping the result of the request
HandleTranscribeCallsNone(result, throws) == <<>>

\* handleTranscribe after the await, lines 348-356: the callbacks invoked for
\* a result, where `throws` tells whether the first callback invoked throws
HandleTranscribeCalls(result, throws) ==
    LET first == IF result.success
                 THEN Call("onTranscriptionComplete", result.transcription)
                 ELSE Call("onError", IF Truthy(result.error) THEN result.error
                                      ELSE "Transcription failed")
    IN  IF throws THEN <<first, Call("onError", CallbackThrewMsg)>>
        ELSE <<first>>

\* what the last step did: the operation, its input, the callbacks it invoked
EventOf(op, arg, cs) == [op |-> op, arg |-> arg, calls |-> cs]

\* the same for an operation whose input is a name or a text
Event(op, name, cs) == EventOf(op, [name |-> name], cs)

(***************************************************************************)
(* Rendering: a commit captures the state in `view` and runs the effects   *)
(* whose dependencies changed (all of them on the mount).                  *)
(***************************************************************************)
\* effect of lines 257-282, deps [propApiUrl, propToken]
ConfigEffectFires(old, v, first) ==
    first \/ old.propApiUrl # v.propApiUrl \/ old.propToken # v.propToken

\* effect of lines 285-316, deps [useSpeechAPI, onTranscriptionComplete, onError]
\* newCallbacks: the host passed new function objects on this render
SpeechEffectFires(old, v, first, newCallbacks) ==
    first \/ old.useSpeechAPI # v.useSpeechAPI \/ newCallbacks

\* effect of lines 319-332, deps [useSpeechAPI, apiUrl, token]
TestConnEffectFires(old, v, first) ==
    first \/ old.useSpeechAPI # v.useSpeechAPI \/ old.apiUrl # v.apiUrl
          \/ old.token # v.token

\* effect of lines 335-339, deps [audioBlob, connectionStatus, useSpeechAPI]
TranscribeEffectFires(old, v, first) ==
    first \/ old.audioBlob # v.audioBlob
          \/ old.connectionStatus # v.connectionStatus
          \/ old.useSpeechAPI # v.useSpeechAPI

\* the condition of line 336 and the early return of line 342
StartsTranscription(v) ==
    /\ v.audioBlob # NoBlob /\ v.connectionStatus = "connected" /\ ~v.useSpeechAPI
    /\ v.apiUrl # ""

\* commit the render of state s with props (pApiUrl, pToken) and callback
\* props that are new function objects or the ones of the last render, then
\* run effects
Commit(s, recs, pApiUrl, pToken, newCallbacks, ev) ==
    LET old == view
        v == Snapshot(s, pApiUrl, pToken)
        first == ~mounted
        s1 == IF ConfigEffectFires(old, v, first)
              THEN InitializeConfig(s, pApiUrl, pToken, speechSupported) ELSE s
        makeRec == SpeechEffectFires(old, v, first, newCallbacks) /\ v.useSpeechAPI /\ speechSupported
        s2 == IF makeRec
              THEN [s1 EXCEPT !.speechRecognition = Len(recs) + 1,
                              !.connectionStatus = "connected"]
              ELSE s1
        doProbe == TestConnEffectFires(old, v, first) /\ ~v.useSpeechAPI /\ v.apiUrl # ""
        doTranscribe == TranscribeEffectFires(old, v, first) /\ StartsTranscription(v)
        s3 == IF doTranscribe THEN [s2 EXCEPT !.isTranscribing = TRUE] ELSE s2
        att == [id |-> Len(attemptLog) + 1, blob |-> v.audioBlob.id,
                apiUrl |-> v.apiUrl, token |-> v.token,
                auth |-> AuthHeader(TokenArg(TRUE, v.token))]

    IN  /\ view' = v
        /\ mounted' = TRUE
        /\ st' = s3
        /\ recognizers' = IF makeRec THEN Append(recs, "idle") ELSE recs
        /\ probes' = IF doProbe
                     THEN probes \cup {[id |-> nProbes + 1,
                                        apiUrl |-> v.apiUrl, token |-> v.token,
                                        auth |-> AuthHeader(TokenArg(TRUE, v.token))]}
                     ELSE probes
        /\ nProbes' = IF doProbe THEN nProbes + 1 ELSE nProbes
        /\ attempts' = IF doTranscribe THEN attempts \cup {att} ELSE attempts
        /\ attemptLog' = IF doTranscribe THEN Append(attemptLog, att.blob) ELSE attemptLog
        /\ lastEvent' = ev

\* state updates are waiting for a render
Dirty == mounted /\ Snapshot(st, view.propApiUrl, view.propToken) # view

\* Platform events (promise continuations, recorder and recognizer events,
\* host renders) need the component mounted and nothing else: an update made
\* outside a React event handler is rendered in a later task, so further
\* events can be delivered before that render and are then rendered with it.

\* the first commit: every effect runs
Mount ==
    /\ UNCHANGED harness
    /\ ~mounted
    /\ Commit(st, recognizers, view.propApiUrl, view.propToken, FALSE, Event("mount", "", NoCalls))
    /\ UNCHANGED <<speechSupported, mediaRecorderRef, audioChunksRef, timerRef, timers, streams,
                   recorders, pendPerm, pendStream, callsMade, nInputs, nHostRenders>>

\* React re-renders after state updates made outside a React event handler
Render ==
    /\ UNCHANGED harness
    /\ Dirty
    /\ Commit(st, recognizers, view.propApiUrl, view.propToken, FALSE, Event("render", "", NoCalls))
    /\ UNCHANGED <<speechSupported, mediaRecorderRef, audioChunksRef, timerRef, timers, streams,
                   recorders, pendPerm, pendStream, callsMade, nInputs, nHostRenders>>

\* the host renders the component again (line 173): with new apiUrl / token
\* props, with new onTranscriptionComplete / onError functions, or both
SetProps ==
    /\ UNCHANGED harness
    /\ mounted
    /\ nInputs < MaxInputs /\ nHostRenders < MaxHostRenders
    /\ nHostRenders' = nHostRenders + 1
    /\ \E p \in PropValues, newCallbacks \in BOOLEAN :
          /\ p # <<view.propApiUrl, view.propToken>> \/ newCallbacks
          /\ Commit(st, recognizers, p[1], p[2], newCallbacks,
                    Event("props", IF newCallbacks THEN "new callbacks" ELSE "",
                          NoCalls))
    /\ nInputs' = nInputs + 1
    /\ UNCHANGED <<speechSupported, mediaRecorderRef, audioChunksRef, timerRef, timers, streams,
                   recorders, pendPerm, pendStream, callsMade>>

\* the health request of a probe completes: lines 323-327
ProbeDone ==
    /\ UNCHANGED harness
    /\ mounted
    /\ \E p \in probes, r \in ProbeOutcomes :
       /\ probes' = probes \ {p}
       /\ st' = [st EXCEPT !.connectionStatus =
                     IF TestConnection(r) THEN "connected" ELSE "error"]
       /\ lastEvent' = EventOf("probeDone",
                             [outcome |-> r, result |-> TestConnection(r)], NoCalls)
       /\ UNCHANGED <<view, mounted, speechSupported, mediaRecorderRef, audioChunksRef, timerRef,
                      timers, streams, recorders, pendPerm, pendStream, nProbes,
                      attempts, attemptLog, recognizers, callsMade, nInputs, nHostRenders>>

(***************************************************************************)
(* useAudioRecorder: startRecording / stopRecording and their platform     *)
(* continuations.                                                          *)
(***************************************************************************)
\* stopTimer, lines 37-42
StopTimerCount(ref, n) == IF ref # 0 THEN n - 1 ELSE n

\* MediaRecorder.stop(): an inactive recorder ignores it; otherwise the
\* recorder is inactivated and its dataavailable + stop events are queued
RecorderStop(rec) ==
    [rec EXCEPT !.state = IF rec.state = "recording" THEN "stopping" ELSE rec.state,
                !.stopCalls = rec.stopCalls + 1]

\* the synchronous part of startRecording, lines 66-76, with the closure's
\* hasPermission h: clears the error and issues a getUserMedia request
StartRecordingState(s) == [s EXCEPT !.hookError = "null"]
StartRecordingAsksPermission(h) == h = "null" \/ h = "false"

\* stopRecording, lines 121-127, with the closure's isRecording
StopRecordingActs(ref, closureIsRecording) == ref # 0 /\ closureIsRecording

\* handleMicrophoneClick, lines 362-385, run on the closure `view`; the
\* button's disabled attribute comes from the same render (line 452).
\* React flushes the state updates of the handler before the event returns.
Click ==
    /\ UNCHANGED harness
    /\ mounted
    /\ nInputs < MaxInputs /\ nInputs - nHostRenders < MaxClicks
    /\ nInputs' = nInputs + 1 /\ UNCHANGED nHostRenders
    /\ ~IsDisabled(view)
    /\ IF view.useSpeechAPI
       THEN /\ view.speechRecognition # 0
            /\ LET r == view.speechRecognition
                   cur == recognizers[r]
               IN  IF view.isListening
                   THEN \* speechRecognition.stop()
                        /\ recognizers' = [recognizers EXCEPT ![r] =
                              IF cur \in {"starting", "listening"} THEN "stopping" ELSE cur]
                        /\ lastEvent' = Event("click", "recognition.stop", NoCalls)
                   ELSE \* speechRecognition.start(): throws when already started
                        /\ recognizers' = [recognizers EXCEPT ![r] =
                              IF cur = "idle" THEN "starting" ELSE cur]
                        /\ lastEvent' = Event("click",
                              IF cur = "idle" THEN "recognition.start"
                              ELSE "recognition.start throws", NoCalls)
            /\ UNCHANGED <<st, view, mounted, mediaRecorderRef, audioChunksRef, timerRef, timers,
                           streams, recorders, pendPerm, pendStream, probes, nProbes,
                           attempts, attemptLog, callsMade>>
       ELSE IF view.hasPermission = "false"
       THEN /\ callsMade' = callsMade \cup {"onError"}
            /\ lastEvent' = Event("click", "denied",
                                  <<Call("onError", "Microphone access denied")>>)
            /\ UNCHANGED <<st, view, mounted, mediaRecorderRef, audioChunksRef, timerRef, timers,
                           streams, recorders, pendPerm, pendStream, probes, nProbes,
                           attempts, attemptLog, recognizers>>
       ELSE IF view.isRecording
       THEN \* stopRecording()
            /\ IF StopRecordingActs(mediaRecorderRef, view.isRecording)
               THEN /\ recorders' = [recorders EXCEPT ![mediaRecorderRef] =
                                        RecorderStop(recorders[mediaRecorderRef])]
                    /\ timers' = StopTimerCount(timerRef, timers)
                    /\ timerRef' = 0
                    /\ Commit([st EXCEPT !.isRecording = FALSE], recognizers,
                              view.propApiUrl, view.propToken, FALSE,
                              Event("click", "stopRecording", NoCalls))
               ELSE /\ lastEvent' = Event("click", "stopRecording no-op", NoCalls)
                    /\ UNCHANGED <<st, view, mounted, timerRef, timers, recorders,
                                   probes, nProbes, attempts, attemptLog, recognizers>>
            /\ UNCHANGED <<mediaRecorderRef, audioChunksRef, streams, pendPerm, pendStream, callsMade>>
       ELSE \* await startRecording()
            /\ IF StartRecordingAsksPermission(view.hasPermission)
               THEN pendPerm' = pendPerm + 1 /\ UNCHANGED pendStream
               ELSE pendStream' = pendStream + 1 /\ UNCHANGED pendPerm
            /\ Commit(StartRecordingState(st), recognizers,
                      view.propApiUrl, view.propToken, FALSE,
                      Event("click", "startRecording", NoCalls))
            /\ UNCHANGED <<mediaRecorderRef, audioChunksRef, timerRef, timers, streams, recorders,
                           callsMade>>
    /\ UNCHANGED speechSupported

\* requestPermission once its getUserMedia resolved, lines 54-57: the state
\* it sets, and the stream it opened with every track stopped
RequestPermissionGranted(s) == [s EXCEPT !.hasPermission = "true"]

\* requestPermission with the stream of the check left running
CheckStreamLeftOpen == [open |-> TRUE, stops |-> 0]

CheckStream == [open |-> FALSE, stops |-> 1]

\* requestPermission swallowing the rejection without setting the error
RequestPermissionDeniedSilent(s) == [s EXCEPT !.hasPermission = "false"]

\* requestPermission once its getUserMedia rejected, lines 58-62
RequestPermissionDenied(s) ==
    [s EXCEPT !.hookError = PermissionDeniedMsg, !.hasPermission = "false"]

\* requestPermission resolves, lines 53-57: the probing stream is opened and
\* stopped at once; startRecording goes on to its own getUserMedia (line 76)
PermissionGranted ==
    /\ UNCHANGED harness
    /\ mounted
    /\ pendPerm > 0
    /\ pendPerm' = pendPerm - 1
    /\ pendStream' = pendStream + 1
    /\ st' = RequestPermissionGranted(st)
    /\ streams' = Append(streams, CheckStream)
    /\ lastEvent' = Event("permissionGranted", "", NoCalls)
    /\ UNCHANGED <<view, mounted, speechSupported, mediaRecorderRef, audioChunksRef, timerRef, timers,
                   recorders, probes, nProbes, attempts, attemptLog,
                   recognizers, callsMade, nInputs, nHostRenders>>

\* requestPermission rejects, lines 58-63, and startRecording returns (line 73)
PermissionDenied ==
    /\ UNCHANGED harness
    /\ mounted
    /\ pendPerm > 0
    /\ pendPerm' = pendPerm - 1
    /\ st' = RequestPermissionDenied(st)
    /\ lastEvent' = Event("permissionDenied", "", NoCalls)
    /\ UNCHANGED <<view, mounted, speechSupported, mediaRecorderRef, audioChunksRef, timerRef, timers,
                   streams, recorders, pendStream, probes, nProbes, attempts,
                   attemptLog, recognizers, callsMade, nInputs, nHostRenders>>

\* how lines 86-113 end: the recorder starts, the MediaRecorder constructor
\* of line 86 throws, or mediaRecorder.start of line 110 throws
StartOutcomes == {"recording", "recorder throws", "start throws"}

\* the recorder built at line 86 for the stream just obtained
NewRecorder(state) ==
    [stream |-> Len(streams) + 1, state |-> state,
     stopCalls |-> 0, captured |-> <<>>, blob |-> <<>>]

\* getUserMedia of line 76 resolves; lines 84-113 run.  When the constructor
\* throws, the catch of lines 115-118 runs before the ref is assigned; when
\* start() throws, it runs after line 90 made the ref point at the new
\* recorder, which never leaves its initial state
StreamResolved ==
    /\ UNCHANGED harness
    /\ mounted
    /\ pendStream > 0
    /\ pendStream' = pendStream - 1
    /\ streams' = Append(streams, [open |-> TRUE, stops |-> 0])
    /\ audioChunksRef' = <<>>
    /\ \E outcome \in StartOutcomes :
          /\ lastEvent' = Event("streamResolved", outcome, NoCalls)
          /\ IF outcome = "recorder throws"
             THEN /\ st' = [st EXCEPT !.hookError = RecorderErrorMsg]
                  /\ UNCHANGED <<mediaRecorderRef, recorders, timerRef, timers>>
             ELSE IF outcome = "start throws"
             THEN /\ recorders' = Append(recorders, NewRecorder("unstarted"))
                  /\ mediaRecorderRef' = Len(recorders) + 1
                  /\ st' = [st EXCEPT !.hookError = RecorderErrorMsg]
                  /\ UNCHANGED <<timerRef, timers>>
             ELSE /\ recorders' = Append(recorders, NewRecorder("recording"))
                  /\ mediaRecorderRef' = Len(recorders) + 1
                  /\ st' = [st EXCEPT !.isRecording = TRUE]
                  /\ timerRef' = 1
                  /\ timers' = timers + 1
    /\ UNCHANGED <<view, mounted, speechSupported, pendPerm, probes, nProbes,
                   attempts, attemptLog, recognizers, callsMade, nInputs, nHostRenders>>

\* getUserMedia of line 76 rejects: catch of lines 115-118
StreamRejected ==
    /\ UNCHANGED harness
    /\ mounted
    /\ pendStream > 0
    /\ pendStream' = pendStream - 1
    /\ st' = [st EXCEPT !.hookError = DeviceErrorMsg]
    /\ lastEvent' = Event("streamRejected", "", NoCalls)
    /\ UNCHANGED <<view, mounted, speechSupported, mediaRecorderRef, audioChunksRef, timerRef, timers,
                   streams, recorders, pendPerm, probes, nProbes, attempts,
                   attemptLog, recognizers, callsMade, nInputs, nHostRenders>>

\* the handler of lines 92-96: a chunk is kept when it is not empty
OnDataAvailable(chunks, chunk, size) ==
    IF size > 0 THEN Append(chunks, chunk) ELSE chunks

\* every non-empty chunk a recorder has delivered so far
ChunksDelivered ==
    UNION {{recorders[r].captured[k] : k \in DOMAIN recorders[r].captured} :
              r \in DOMAIN recorders}

\* a dataavailable event of a recorder, lines 92-96: every timeslice while
\* it records, and the events queued by stop() ahead of its stop event.
\* `captured` is the platform's record of the session's non-empty chunks.
DataAvailable ==
    /\ mounted
    /\ Cardinality(ChunksDelivered) < MaxChunks
    /\ \E r \in DOMAIN recorders, size \in ChunkSizes :
       LET chunk == [s |-> r, n |-> Len(recorders[r].captured) + 1]
       IN  /\ recorders[r].state \in {"recording", "stopping"}
           /\ audioChunksRef' = OnDataAvailable(audioChunksRef, chunk, size)
           /\ recorders' = [recorders EXCEPT
                  ![r].captured = OnDataAvailable(@, chunk, size)]
           /\ lastEvent' = EventOf("dataavailable", [size |-> size], NoCalls)
    /\ UNCHANGED <<st, view, mounted, speechSupported, mediaRecorderRef, timerRef,
                   timers, streams, pendPerm, pendStream, probes, nProbes,
                   attempts, attemptLog, recognizers, callsMade, nInputs, nHostRenders, harness>>

\* an onstop that leaves the tracks of its stream running
StopTracksNever(stream) == stream

\* stream.getTracks().forEach(track => track.stop()), line 107
StopTracks(stream) == [open |-> FALSE, stops |-> stream.stops + 1]

\* the stop event of a stopped recorder: mediaRecorder.onstop, lines 98-108;
\* the Blob is built from the chunk list the ref holds at that moment
RecorderStopped ==
    /\ UNCHANGED harness
    /\ mounted
    /\ \E r \in DOMAIN recorders :
       /\ recorders[r].state = "stopping"
       /\ recorders' = [recorders EXCEPT ![r].state = "inactive",
                                         ![r].blob = audioChunksRef]
       /\ st' = [st EXCEPT !.audioBlob = [id |-> r], !.audioUrl = r]
       /\ streams' = [streams EXCEPT ![recorders[r].stream] = StopTracks(@)]
       /\ lastEvent' = Event("recorderStopped", "", NoCalls)
       /\ UNCHANGED <<view, mounted, speechSupported, mediaRecorderRef, audioChunksRef, timerRef,
                      timers, pendPerm, pendStream, probes, nProbes, attempts,
                      attemptLog, recognizers, callsMade, nInputs, nHostRenders>>

\* the request of an attempt settles: handleTranscribe lines 346-359
TranscribeDone ==
    /\ UNCHANGED harness
    /\ mounted
    /\ \E a \in attempts, r \in Responses, throws \in BOOLEAN :
       LET cs == HandleTranscribeCalls(TranscribeAudio(r), throws)
       IN  /\ attempts' = attempts \ {a}
           /\ st' = [st EXCEPT !.isTranscribing = FALSE]
           /\ callsMade' = callsMade \cup { cs[i].cb : i \in DOMAIN cs }
           /\ lastEvent' = [op |-> "transcribeDone", arg |-> r, calls |-> cs,
                             auth |-> a.auth]
           /\ UNCHANGED <<view, mounted, speechSupported, mediaRecorderRef, audioChunksRef, timerRef,
                          timers, streams, recorders, pendPerm, pendStream, probes,
                          nProbes, attemptLog, recognizers, nInputs, nHostRenders>>

(***************************************************************************)
(* Events of the on-device recognizers, handlers of lines 294-310.         *)
(***************************************************************************)
RecognitionStart ==
    /\ UNCHANGED harness
    /\ mounted
    /\ \E r \in DOMAIN recognizers :
       /\ recognizers[r] = "starting"
       /\ recognizers' = [recognizers EXCEPT ![r] = "listening"]
       /\ st' = [st EXCEPT !.isListening = TRUE]
       /\ lastEvent' = Event("recognition.onstart", "", NoCalls)
       /\ UNCHANGED <<view, mounted, speechSupported, mediaRecorderRef, audioChunksRef, timerRef,
                      timers, streams, recorders, pendPerm, pendStream, probes,
                      nProbes, attempts, attemptLog, callsMade, nInputs, nHostRenders>>

RecognitionResult ==
    /\ UNCHANGED harness
    /\ mounted
    /\ \E r \in DOMAIN recognizers, t \in {"hello world"} :
       /\ recognizers[r] \in {"listening", "stopping"}
       /\ recognizers' = [recognizers EXCEPT ![r] = "ending"]
       /\ callsMade' = callsMade \cup {"onTranscriptionComplete"}
       /\ lastEvent' = Event("recognition.onresult", t,
                             <<Call("onTranscriptionComplete", t)>>)
       /\ UNCHANGED <<st, view, mounted, speechSupported, mediaRecorderRef, audioChunksRef, timerRef,
                      timers, streams, recorders, pendPerm, pendStream, probes,
                      nProbes, attempts, attemptLog, nInputs, nHostRenders>>

\* recognition.onerror, lines 303-306: onError is called first, outside any
\* try, so when it throws the setIsListening(false) of line 305 is not reached
RecognitionError ==
    /\ UNCHANGED harness
    /\ mounted
    /\ \E r \in DOMAIN recognizers, e \in RecognizerErrors, throws \in BOOLEAN :
       /\ recognizers[r] \in {"starting", "listening", "stopping"}
       /\ recognizers' = [recognizers EXCEPT ![r] = "ending"]
       /\ st' = IF throws THEN st ELSE [st EXCEPT !.isListening = FALSE]
       /\ callsMade' = callsMade \cup {"onError"}
       /\ lastEvent' = EventOf("recognition.onerror",
                              [name |-> e, throws |-> throws],
                              <<Call("onError", "Speech recognition error: " \o e)>>)
       /\ UNCHANGED <<view, mounted, speechSupported, mediaRecorderRef, audioChunksRef, timerRef,
                      timers, streams, recorders, pendPerm, pendStream, probes,
                      nProbes, attempts, attemptLog, nInputs, nHostRenders>>

RecognitionEnd ==
    /\ UNCHANGED harness
    /\ mounted
    /\ \E r \in DOMAIN recognizers :
       /\ recognizers[r] \in {"listening", "stopping", "ending"}
       /\ recognizers' = [recognizers EXCEPT ![r] = "idle"]
       /\ st' = [st EXCEPT !.isListening = FALSE]
       /\ lastEvent' = Event("recognition.onend", "", NoCalls)
       /\ UNCHANGED <<view, mounted, speechSupported, mediaRecorderRef, audioChunksRef, timerRef,
                      timers, streams, recorders, pendPerm, pendStream, probes,
                      nProbes, attempts, attemptLog, callsMade, nInputs, nHostRenders>>


Init ==
    /\ st = InitialState
    /\ \E p \in PropValues : view = Snapshot(InitialState, p[1], p[2])
    /\ mounted = FALSE
    /\ speechSupported \in BOOLEAN
    /\ mediaRecorderRef = 0
    /\ audioChunksRef = <<>>
    /\ timerRef = 0
    /\ timers = 0
    /\ streams = <<>>
    /\ recorders = <<>>
    /\ pendPerm = 0
    /\ pendStream = 0
    /\ probes = {}
    /\ nProbes = 0
    /\ attempts = {}
    /\ attemptLog = <<>>
    /\ recognizers = <<>>
    /\ callsMade = {}
    /\ lastEvent = Event("none", "", NoCalls)
    /\ nInputs = 0
    /\ nHostRenders = 0
    /\ pendCheck = 0
    /\ resetUpTo = 0
    /\ api = NoApiCall

Next ==
    \/ Mount
    \/ Render
    \/ SetProps
    \/ ProbeDone
    \/ Click
    \/ PermissionGranted
    \/ PermissionDenied
    \/ StreamResolved
    \/ StreamRejected
    \/ DataAvailable
    \/ RecorderStopped
    \/ TranscribeDone
    \/ RecognitionStart
    \/ RecognitionResult
    \/ RecognitionError
    \/ RecognitionEnd

Spec == Init /\ [][Next]_vars

(***************************************************************************)
(* apiClient.ts called directly: one call of transcribeAudio or of         *)
(* testConnection, with a token argument and the answer of the network.    *)
(***************************************************************************)
componentVars ==
    <<st, view, mounted, speechSupported, mediaRecorderRef, audioChunksRef, timerRef, timers,
      streams, recorders, pendPerm, pendStream, probes, nProbes, attempts,
      attemptLog, recognizers, callsMade, lastEvent, nInputs, nHostRenders>>

\* token arguments: empty, whitespace only, plain, with whitespace around it
ApiTokens ==
    {NoToken, <<" ">>, <<" ", "\t">>, <<"\n">>, <<"\r", "\f">>, Tok, <<" ", "t">>,
     <<"t", " ">>, <<"\n", "t", "\r">>, <<"U+00A0">>, <<"U+FEFF", "t">>}

\* the token argument of a call: left out, or one of ApiTokens
ApiTokenArgs ==
    {[given |-> FALSE, token |-> NoToken]}
    \cup {[given |-> TRUE, token |-> t] : t \in ApiTokens}

\* transcribeAudio(audioBlob, apiUrl, token), lines 10-77
ApiTranscribeAudio ==
    /\ api.fn = "args"
    /\ api.response \in ApiResponses
    /\ api' = [fn |-> "transcribeAudio", given |-> api.given, token |-> api.token,
               response |-> api.response,
               header |-> AuthHeader(TokenArg(api.given, api.token)),
               result |-> TranscribeAudio(api.response)]
    /\ UNCHANGED <<componentVars, pendCheck, resetUpTo>>

\* testConnection(apiUrl, token), lines 80-103
ApiTestConnection ==
    /\ api.fn = "args"
    /\ api.response \in ProbeOutcomes
    /\ api' = [fn |-> "testConnection", given |-> api.given, token |-> api.token,
               response |-> api.response,
               header |-> AuthHeader(TokenArg(api.given, api.token)),
               result |-> TestConnection(api.response)]
    /\ UNCHANGED <<componentVars, pendCheck, resetUpTo>>

ApiInit ==
    /\ st = InitialState
    /\ view = Snapshot(InitialState, "", NoToken)
    /\ mounted = FALSE
    /\ speechSupported = FALSE
    /\ mediaRecorderRef = 0
    /\ audioChunksRef = <<>>
    /\ timerRef = 0
    /\ timers = 0
    /\ streams = <<>>
    /\ recorders = <<>>
    /\ pendPerm = 0
    /\ pendStream = 0
    /\ probes = {}
    /\ nProbes = 0
    /\ attempts = {}
    /\ attemptLog = <<>>
    /\ recognizers = <<>>
    /\ callsMade = {}
    /\ lastEvent = Event("none", "", NoCalls)
    /\ nInputs = 0
    /\ nHostRenders = 0
    /\ pendCheck = 0
    /\ resetUpTo = 0
    /\ \E a \in ApiTokenArgs, r \in ApiResponses \cup ProbeOutcomes :
          api = [fn |-> "args", given |-> a.given, token |-> a.token, response |-> r]

ApiNext ==
    \/ ApiTranscribeAudio
    \/ ApiTestConnection

ApiSpec == ApiInit /\ [][ApiNext]_vars

(***************************************************************************)
(* useAudioRecorder rendered on its own: a caller invokes the functions    *)
(* the hook returns, each on the closure of the last render, and the       *)
(* platform continuations are those of the component's model.              *)
(***************************************************************************)
\* the hook's host re-renders after state updates
HookRender ==
    /\ Dirty
    /\ view' = Snapshot(st, view.propApiUrl, view.propToken)
    /\ lastEvent' = Event("render", "", NoCalls)
    /\ UNCHANGED <<st, mounted, speechSupported, mediaRecorderRef, audioChunksRef, timerRef, timers,
                   streams, recorders, pendPerm, pendStream, probes, nProbes,
                   attempts, attemptLog, recognizers, callsMade, nInputs, nHostRenders, harness>>

\* startRecording(), lines 66-76, up to its first await
CallStartRecording ==
    /\ mounted
    /\ nInputs < MaxInputs
    /\ nInputs' = nInputs + 1 /\ UNCHANGED nHostRenders
    /\ st' = StartRecordingState(st)
    /\ IF StartRecordingAsksPermission(view.hasPermission)
       THEN pendPerm' = pendPerm + 1 /\ UNCHANGED pendStream
       ELSE pendStream' = pendStream + 1 /\ UNCHANGED pendPerm
    /\ lastEvent' = Event("call", "startRecording", NoCalls)
    /\ UNCHANGED <<view, mounted, speechSupported, mediaRecorderRef, audioChunksRef, timerRef, timers,
                   streams, recorders, probes, nProbes, attempts, attemptLog,
                   recognizers, callsMade, harness>>

\* stopRecording(), lines 121-127
CallStopRecording ==
    /\ mounted
    /\ nInputs < MaxInputs
    /\ nInputs' = nInputs + 1 /\ UNCHANGED nHostRenders
    /\ IF StopRecordingActs(mediaRecorderRef, view.isRecording)
       THEN /\ recorders' = [recorders EXCEPT ![mediaRecorderRef] =
                                RecorderStop(recorders[mediaRecorderRef])]
            /\ st' = [st EXCEPT !.isRecording = FALSE]
            /\ timers' = StopTimerCount(timerRef, timers)
            /\ timerRef' = 0
            /\ lastEvent' = Event("call", "stopRecording", NoCalls)
       ELSE /\ lastEvent' = Event("call", "stopRecording no-op", NoCalls)
            /\ UNCHANGED <<st, recorders, timers, timerRef>>
    /\ UNCHANGED <<view, mounted, speechSupported, mediaRecorderRef, audioChunksRef, streams,
                   pendPerm, pendStream, probes, nProbes, attempts, attemptLog,
                   recognizers, callsMade, harness>>

\* the setX calls of resetRecording, lines 134-144, where closureAudioUrl is
\* the audioUrl of the render the function was created in
ResetRecordingState(s, closureAudioUrl) ==
    [s EXCEPT !.isRecording = FALSE, !.audioBlob = NoBlob,
              !.audioUrl = IF closureAudioUrl # 0 THEN 0 ELSE s.audioUrl,
              !.hookError = "null"]

\* resetRecording(), lines 129-145
CallResetRecording ==
    /\ mounted
    /\ nInputs < MaxInputs
    /\ nInputs' = nInputs + 1 /\ UNCHANGED nHostRenders
    /\ recorders' = IF StopRecordingActs(mediaRecorderRef, view.isRecording)
                     THEN [recorders EXCEPT ![mediaRecorderRef] =
                              RecorderStop(recorders[mediaRecorderRef])]
                     ELSE recorders
    /\ st' = ResetRecordingState(st, view.audioUrl)
    /\ timers' = StopTimerCount(timerRef, timers)
    /\ timerRef' = 0
    /\ resetUpTo' = Len(recorders)
    /\ lastEvent' = Event("call", "resetRecording", NoCalls)
    /\ UNCHANGED <<view, mounted, speechSupported, mediaRecorderRef, audioChunksRef, streams,
                   pendPerm, pendStream, probes, nProbes, attempts, attemptLog,
                   recognizers, callsMade, pendCheck, api>>

\* requestPermission(), lines 50-53, up to its await
CallRequestPermission ==
    /\ mounted
    /\ nInputs < MaxInputs
    /\ nInputs' = nInputs + 1 /\ UNCHANGED nHostRenders
    /\ st' = [st EXCEPT !.hookError = "null"]
    /\ pendCheck' = pendCheck + 1
    /\ lastEvent' = Event("call", "requestPermission", NoCalls)
    /\ UNCHANGED <<view, mounted, speechSupported, mediaRecorderRef, audioChunksRef, timerRef, timers,
                   streams, recorders, pendPerm, pendStream, probes, nProbes,
                   attempts, attemptLog, recognizers, callsMade, resetUpTo, api>>

\* a direct requestPermission returns true, lines 54-57
CheckGranted ==
    /\ mounted
    /\ pendCheck > 0
    /\ pendCheck' = pendCheck - 1
    /\ st' = RequestPermissionGranted(st)
    /\ streams' = Append(streams, CheckStream)
    /\ lastEvent' = EventOf("requestPermission",
                          [granted |-> TRUE, returned |-> TRUE,
                           stream |-> Len(streams) + 1], NoCalls)
    /\ UNCHANGED <<view, mounted, speechSupported, mediaRecorderRef, audioChunksRef, timerRef, timers,
                   recorders, pendPerm, pendStream, probes, nProbes, attempts,
                   attemptLog, recognizers, callsMade, nInputs, nHostRenders, resetUpTo, api>>

\* a direct requestPermission returns false, lines 58-62
CheckDenied ==
    /\ mounted
    /\ pendCheck > 0
    /\ pendCheck' = pendCheck - 1
    /\ st' = RequestPermissionDenied(st)
    /\ lastEvent' = EventOf("requestPermission",
                          [granted |-> FALSE, returned |-> FALSE, stream |-> 0],
                          NoCalls)
    /\ UNCHANGED <<view, mounted, speechSupported, mediaRecorderRef, audioChunksRef, timerRef, timers,
                   streams, recorders, pendPerm, pendStream, probes, nProbes,
                   attempts, attemptLog, recognizers, callsMade, nInputs, nHostRenders,
                   resetUpTo, api>>

\* the hook after its first render
HookInit ==
    /\ st = InitialState
    /\ view = Snapshot(InitialState, "", NoToken)
    /\ mounted = TRUE
    /\ speechSupported = FALSE
    /\ mediaRecorderRef = 0
    /\ audioChunksRef = <<>>
    /\ timerRef = 0
    /\ timers = 0
    /\ streams = <<>>
    /\ recorders = <<>>
    /\ pendPerm = 0
    /\ pendStream = 0
    /\ probes = {}
    /\ nProbes = 0
    /\ attempts = {}
    /\ attemptLog = <<>>
    /\ recognizers = <<>>
    /\ callsMade = {}
    /\ lastEvent = Event("none", "", NoCalls)
    /\ nInputs = 0
    /\ nHostRenders = 0
    /\ pendCheck = 0
    /\ resetUpTo = 0
    /\ api = NoApiCall

HookNext ==
    \/ HookRender
    \/ CallStartRecording
    \/ CallStopRecording
    \/ CallResetRecording
    \/ CallRequestPermission
    \/ CheckGranted
    \/ CheckDenied
    \/ DataAvailable
    \/ PermissionGranted
    \/ PermissionDenied
    \/ StreamResolved
    \/ StreamRejected
    \/ RecorderStopped

HookSpec == HookInit /\ [][HookNext]_vars

(***************************************************************************)
(* Properties                                                              *)
(***************************************************************************)
\* sessions whose recorder is running on an open capture stream
ActiveSessions ==
    { r \in DOMAIN recorders :
         recorders[r].state = "recording" /\ streams[recorders[r].stream].open }

\* C1: at most one recording session is active at any time: there is never
\* more than one open capture stream with a running recorder.
C1_AtMostOneActiveSession == Cardinality(ActiveSessions) <= 1

\* C2: the capture stream of every session is released exactly once: never
\* twice, released once the session has stopped, and a session that has been
\* replaced by a newer one is not left recording on an open stream.
C2_StreamReleasedOncePerSession ==
    \A r \in DOMAIN recorders :
       LET stream == streams[recorders[r].stream]
       IN  /\ stream.stops <= 1
           /\ recorders[r].state = "inactive" => (~stream.open /\ stream.stops = 1)
           /\ r # mediaRecorderRef => ~(recorders[r].state = "recording" /\ stream.open)

\* C3: the auto-transcribe effect never submits the same blob a second time.
C3_NoBlobSubmittedTwice ==
    \A i, j \in DOMAIN attemptLog : i # j => attemptLog[i] # attemptLog[j]

\* C4: an attempt that settles delivers exactly one callback invocation,
\* either onTranscriptionComplete or onError, never both.
C4_ExactlyOneOutcome ==
    lastEvent.op = "transcribeDone" => Len(lastEvent.calls) = 1

\* a step that is a click on the control
ClickStep == lastEvent'.op = "click" /\ nInputs' = nInputs + 1

\* C5: while the control is disabled or a transcription is in flight, a
\* click changes no recorder or recognizer state, starts or stops no
\* capture, and invokes no callback.  The click is taken on an up-to-date
\* render, so the state the handler sees is the state on screen.
C5_DisabledClickIsNoOp ==
    [][ (ClickStep /\ ~Dirty /\ (IsDisabled(st) \/ st.isTranscribing))
        => /\ st' = st
           /\ recorders' = recorders
           /\ recognizers' = recognizers
           /\ pendPerm' = pendPerm
           /\ pendStream' = pendStream
           /\ Len(lastEvent'.calls) = 0 ]_vars

\* no backend: no endpoint prop and no on-device recognition
Unconfigured == view.propApiUrl = "" /\ ~speechSupported

\* C6: with no endpoint and no on-device recognition, once the mount's
\* configuration resolution has been committed an onError invocation has
\* been made.
C6_ConfigurationErrorReported ==
    (mounted /\ nInputs = 0 /\ Unconfigured /\ ~Dirty) => "onError" \in callsMade

\* C7: when the platform has denied microphone access to a start made from
\* the control, the error has been passed to onError and the control is
\* disabled.
C7_PermissionErrorReported ==
    (st.hasPermission = "false" /\ ~Dirty)
        => ("onError" \in callsMade /\ IsDisabled(view))

\* C8: when the probe found the endpoint unreachable, the error has been
\* passed to onError and the control is disabled.
C8_ConnectivityErrorReported ==
    (~st.useSpeechAPI /\ st.connectionStatus = "error" /\ ~Dirty)
        => ("onError" \in callsMade /\ IsDisabled(view))

\* the last step settled an attempt with an HTTP error carrying an error message
HttpErrorWithMessage ==
    /\ lastEvent.op = "transcribeDone"
    /\ lastEvent.arg.kind = "response"
    /\ ~OkStatus(lastEvent.arg.status)
    /\ Truthy(lastEvent.arg.error)

\* the callbacks of C9: onError first and with the server's message, and no
\* onTranscriptionComplete
ServerMessageDelivered ==
    /\ Len(lastEvent.calls) >= 1
    /\ lastEvent.calls[1] = Call("onError", lastEvent.arg.error)
    /\ \A i \in DOMAIN lastEvent.calls : lastEvent.calls[i].cb = "onError"

\* C9 as stated: after an HTTP error response with an error message, onError
\* has received that message, onTranscriptionComplete was not invoked, and
\* the control is idle: not transcribing and enabled.
C9_HttpErrorBackToIdle ==
    HttpErrorWithMessage
        => (ServerMessageDelivered /\ ~st.isTranscribing /\ ~IsDisabled(st))

\* C9 amended: the same, with the control enabled unless permission has
\* been denied or the connectivity status is not connected in the meantime.
C9_HttpErrorDelivered ==
    HttpErrorWithMessage
        => /\ ServerMessageDelivered
           /\ ~st.isTranscribing
           /\ (st.hasPermission # "false" /\ st.connectionStatus = "connected")
                 => ~IsDisabled(st)

C9_Witness ==
    /\ HttpErrorWithMessage
    /\ lastEvent.arg.status = 500
    /\ lastEvent.arg.error = "overloaded"
    /\ lastEvent.calls = <<Call("onError", "overloaded")>>
    /\ ~IsDisabled(st)

\* C10: a probe reports reachable exactly when its request received an HTTP
\* response, whatever the status, and the status cell follows the report.
C10_ProbeReachableIffResponse ==
    lastEvent.op = "probeDone"
        => /\ lastEvent.arg.result = (lastEvent.arg.outcome.kind = "response")
           /\ st.connectionStatus =
                 IF lastEvent.arg.outcome.kind = "response" THEN "connected" ELSE "error"

C10_Witness ==
    /\ lastEvent.op = "probeDone"
    /\ lastEvent.arg.outcome.kind = "response"
    /\ lastEvent.arg.outcome.status = 404
    /\ st.connectionStatus = "connected"

\* the call of an apiClient function has returned
ApiReturned == api.fn \in {"transcribeAudio", "testConnection"}

\* C11: transcribeAudio and testConnection attach an Authorization header
\* exactly when a token with a non-whitespace character is supplied: none for
\* a missing, empty or whitespace-only token, and otherwise "Bearer "
\* followed by the token as supplied.
C11_AuthHeaderIffCredential ==
    ApiReturned =>
        LET supplied == api.given /\ \E i \in DOMAIN api.token :
                                         api.token[i] \notin Whitespace
        IN  /\ api.header.present = supplied
            /\ supplied => api.header.value = BearerPrefix \o api.token
            /\ ~supplied => api.header = NoHeader

C11_Witness ==
    /\ api.fn = "transcribeAudio"
    /\ api.given /\ api.token = <<" ", "t">>
    /\ api.header = [present |-> TRUE,
                     value |-> <<"B", "e", "a", "r", "e", "r", " ", " ", "t">>]

\* the error string of the claim for an answer with a response: the server's
\* error, else its message, else the status code
ServerError(r) ==
    IF Truthy(r.error) THEN r.error
    ELSE IF Truthy(r.message) THEN r.message
    ELSE "HTTP " \o ToString(r.status)

\* a direct call of transcribeAudio returned a failure
ApiTranscribeFailed == api.fn = "transcribeAudio" /\ ~api.result.success

\* C12 as stated: every failure is returned as {transcription: '', success:
\* false, error}, where error is the server's error or message or
\* 'HTTP <status>' whenever a response was received, the network error text
\* when no response arrived, and the client-side message otherwise.
C12_FailureClassifiedByResponse ==
    ApiTranscribeFailed =>
        /\ api.result.transcription = ""
        /\ api.result.error =
              IF api.response.kind = "response" THEN ServerError(api.response)
              ELSE IF api.response.kind = "noresponse"
              THEN "Network error - no response from server"
              ELSE SetupErrorMsg

\* C12 amended: every call returns; a call fails exactly when the response
\* has an error status, has a body that cannot be read, or did not arrive.
\* The error is the server's error or message or 'HTTP <status>' for a
\* response with an error status, the network error text when no response
\* arrived, and the client-side message otherwise, which includes a 2xx
\* response whose body is null.
C12_FailureClassified ==
    api.fn = "transcribeAudio" =>
        LET r == api.response
            errorStatus == r.kind = "response" /\ ~OkStatus(r.status)
            unreadable == r.kind = "response" /\ OkStatus(r.status) /\ r.body = "null"
        IN  /\ api.result.success = (r.kind = "response" /\ ~errorStatus /\ ~unreadable)
            /\ ~api.result.success =>
                  /\ api.result.transcription = ""
                  /\ api.result.error =
                        IF errorStatus THEN ServerError(r)
                        ELSE IF unreadable THEN NullBodyMsg
                        ELSE IF r.kind = "noresponse"
                        THEN "Network error - no response from server"
                        ELSE SetupErrorMsg

C12_Witness ==
    /\ ApiTranscribeFailed
    /\ api.response.kind = "response" /\ api.response.status = 500
    /\ api.response.error = Absent /\ api.response.message = "busy"
    /\ api.result = [transcription |-> "", success |-> FALSE, error |-> "busy"]

\* the backend the component works with: the remote endpoint under the
\* condition of lines 321 and 342, the recognizer under that of line 363
RemoteSelected(s) == ~s.useSpeechAPI /\ s.apiUrl # ""
OnDeviceSelected(s) == s.useSpeechAPI

\* the last step committed a render that resolved the configuration
ConfigResolved == lastEvent.op \in {"mount", "props"}

\* C13: after each configuration resolution exactly one outcome holds, by
\* priority: remote mode with the given endpoint when apiUrl is non-empty
\* (with or without a token); else on-device mode when recognition is
\* available; else unconfigured, with no backend selected and the
\* configuration error set.
C13_BackendPriority ==
    ConfigResolved =>
        IF view.propApiUrl # ""
        THEN /\ RemoteSelected(st) /\ ~OnDeviceSelected(st)
             /\ st.apiUrl = view.propApiUrl /\ st.token = view.propToken
             /\ st.error = ""
        ELSE IF speechSupported
        THEN OnDeviceSelected(st) /\ ~RemoteSelected(st) /\ st.error = ""
        ELSE ~RemoteSelected(st) /\ ~OnDeviceSelected(st) /\ st.error # ""

\* C14: the recorder of a session has its stop() invoked at most once,
\* whatever the sequence of stopRecording calls, and a stopRecording call
\* made when no session is recording changes nothing.
C14_StopAtMostOncePerSession ==
    /\ [](\A r \in DOMAIN recorders : recorders[r].stopCalls <= 1)
    /\ [][ (lastEvent'.op = "call" /\ nInputs' = nInputs + 1
              /\ lastEvent'.arg.name \in {"stopRecording", "stopRecording no-op"}
              /\ ~st.isRecording)
            => (st' = st /\ recorders' = recorders /\ timers' = timers) ]_vars

\* the last step was a call of resetRecording
ResetCalled == lastEvent.op = "call" /\ lastEvent.arg.name = "resetRecording"

\* C15: right after resetRecording the blob, its URL and the error are
\* null, and a blob shown later comes from a session that began after the
\* reset, never from one the reset discarded.
C15_ResetDiscardsSession ==
    /\ ResetCalled =>
          (st.audioBlob = NoBlob /\ st.audioUrl = 0 /\ st.hookError = "null")
    /\ st.audioBlob # NoBlob => st.audioBlob.id > resetUpTo

\* C20: a direct requestPermission call returns in both cases: true with
\* hasPermission true when the platform grants access, and then the stream
\* opened for the check has been stopped once and is closed; false with
\* hasPermission false and an error message when it does not.
C20_RequestPermissionOutcome ==
    lastEvent.op = "requestPermission" =>
        IF lastEvent.arg.granted
        THEN /\ lastEvent.arg.returned = TRUE
             /\ st.hasPermission = "true"
             /\ ~streams[lastEvent.arg.stream].open
             /\ streams[lastEvent.arg.stream].stops = 1
        ELSE /\ lastEvent.arg.returned = FALSE
             /\ st.hasPermission = "false"
             /\ st.hookError \notin {"null", ""}

C20_Witness ==
    /\ lastEvent.op = "requestPermission"
    /\ lastEvent.arg.granted /\ lastEvent.arg.returned
    /\ st.hasPermission = "true"
    /\ streams[lastEvent.arg.stream] = [open |-> FALSE, stops |-> 1]
    /\ \A i \in DOMAIN streams : ~streams[i].open

\* the host configured an endpoint and no token
EndpointWithoutToken == view.propApiUrl # "" /\ view.propToken = NoToken

\* a blob exists after two inputs: the inputs were a start click and a stop
\* click, so the props are those of the mount
StartThenStop == nInputs = 2 /\ st.audioBlob # NoBlob

\* C16: with an endpoint and no token there is no configuration error; after
\* the mount's probe succeeded the control is idle; a start followed by a
\* stop produces exactly one transcription request, sent without an
\* Authorization header; and when the server answers 2xx with a
\* transcription string, onTranscriptionComplete receives that string.
C16_EndpointWithoutCredential ==
    (mounted /\ EndpointWithoutToken) =>
        /\ st.error = ""
        /\ (nInputs = 0 /\ lastEvent.op = "probeDone" /\ lastEvent.arg.result)
              => (~IsDisabled(st) /\ ~st.isRecording /\ ~st.isTranscribing)
        /\ \A a \in attempts : a.token = NoToken => a.auth = NoHeader
        /\ (StartThenStop /\ ~Dirty) => Len(attemptLog) = 1
        /\ (StartThenStop /\ lastEvent.op = "transcribeDone")
              => /\ lastEvent.auth = NoHeader
                 /\ Len(attemptLog) = 1
                 /\ (/\ lastEvent.arg.kind = "response"
                     /\ OkStatus(lastEvent.arg.status)
                     /\ Truthy(lastEvent.arg.transcription))
                       => lastEvent.calls[1] =
                            Call("onTranscriptionComplete", lastEvent.arg.transcription)

C16_Witness ==
    /\ mounted /\ EndpointWithoutToken /\ StartThenStop
    /\ lastEvent.op = "transcribeDone"
    /\ lastEvent.arg.status = 200
    /\ lastEvent.arg.transcription = "hello world"
    /\ lastEvent.calls = <<Call("onTranscriptionComplete", "hello world")>>
    /\ lastEvent.auth = NoHeader
    /\ attemptLog = <<1>>

\* C17: no transcription request is started while the component is in
\* on-device mode; a recognizer result goes to onTranscriptionComplete and
\* nowhere else; a recognizer error goes to onError with the prefix
\* 'Speech recognition error: '; and right after a recognizer's error or end
\* event isListening is false.
C17_OnDeviceMode ==
    /\ [][ Len(attemptLog') > Len(attemptLog)
              => (~st.useSpeechAPI /\ ~st'.useSpeechAPI) ]_vars
    /\ [](lastEvent.op = "recognition.onresult"
            => lastEvent.calls = <<Call("onTranscriptionComplete", lastEvent.arg.name)>>)
    /\ [](lastEvent.op = "recognition.onerror"
            => /\ lastEvent.calls =
                    <<Call("onError", "Speech recognition error: " \o lastEvent.arg.name)>>
               /\ ~st.isListening)
    /\ [](lastEvent.op = "recognition.onend" => ~st.isListening)

\* a click on the render v reaches startRecording: the button is enabled
\* and the handler passes its hasPermission check
ClickStartsRecording(v) ==
    ~IsDisabled(v) /\ ~v.useSpeechAPI /\ v.hasPermission # "false" /\ ~v.isRecording

\* C18: after a microphone permission denial the control is ready for a
\* retry: with the endpoint connected and nothing recording or in flight, a
\* click on the control calls startRecording again, which re-requests
\* permission.
C18_RetryAfterDenial ==
    (/\ st.hasPermission = "false" /\ ~Dirty
     /\ ~st.useSpeechAPI /\ st.connectionStatus = "connected"
     /\ ~st.isTranscribing /\ ~st.isRecording)
        => ClickStartsRecording(view)

\* disabled for a reason other than a transcription in flight: permission
\* denied (remote mode) or connectivity not established
OtherwiseDisabled(v) ==
    \/ ~v.useSpeechAPI /\ v.hasPermission = "false"
    \/ v.connectionStatus \in {"error", "checking"}

\* the color set the claim assigns to a render
ClaimedColors(v) ==
    IF OtherwiseDisabled(v) THEN "disabled"
    ELSE IF v.isTranscribing THEN "transcribing"
    ELSE IF v.isRecording \/ v.isListening THEN "active"
    ELSE "idle"

\* C19: every render displays the color set of its state: transcribing
\* while a transcription is in flight and the control is not disabled by
\* permission or connectivity, active while recording or listening,
\* disabled while disabled, idle otherwise.
C19_ColorsMatchState ==
    mounted => GetCurrentColors(view) = ClaimedColors(view)

\* C21: at most one transcription request is in flight at any time.
C21_OneAttemptInFlight == Cardinality(attempts) <= 1

\* a step in which the auto-transcribe effect starts a request
AttemptStarts == Len(attemptLog') > Len(attemptLog)

\* C22: a request is started only by a render that holds a finalized blob
\* with the status connected, it submits the blob finalized last, and no
\* capture session is recording when it starts.
C22_AttemptOnlyWithFinalBlob ==
    [][ AttemptStarts =>
          /\ view'.audioBlob # NoBlob
          /\ view'.connectionStatus = "connected"
          /\ st'.audioBlob = view'.audioBlob
          /\ attemptLog'[Len(attemptLog')] = st'.audioBlob.id
          /\ \A r \in DOMAIN recorders' : recorders'[r].state # "recording" ]_vars

\* a probe of an earlier configuration completes after the latest probe
\* has already reported, and its result changes the status
StaleProbeDecides ==
    \E p \in probes :
       /\ probes' = probes \ {p}
       /\ p.id < nProbes
       /\ \A q \in probes : q.id # nProbes
       /\ p.apiUrl # st.apiUrl \/ p.token # st.token
       /\ st'.connectionStatus # st.connectionStatus

\* C23: the late result of a probe of a superseded endpoint/credential
\* never determines the connectivity status.
C23_StaleProbeNeverDecides == [][~StaleProbeDecides]_vars

\* the probe of the endpoint/credential now configured has not reported yet
CurrentProbeOutstanding ==
    /\ mounted /\ ~st.useSpeechAPI
    /\ \E p \in probes :
          p.id = nProbes /\ p.apiUrl = st.apiUrl /\ p.token = st.token

\* C24: while the probe of the configured endpoint/credential is outstanding
\* the status is checking and the control is disabled.
C24_CheckingWhileProbing ==
    CurrentProbeOutstanding =>
        (st.connectionStatus = "checking" /\ IsDisabled(st))

\* no endpoint is given to the component and the platform has no recognizer
NothingConfigured == mounted /\ view.propApiUrl = "" /\ ~speechSupported

\* C28: with no endpoint configured and no on-device recognition the control
\* is disabled and the status is not connected.
C28_UnconfiguredStaysDisabled ==
    NothingConfigured =>
        (IsDisabled(st) /\ st.connectionStatus # "connected")

\* the recorder the ref points at was stopped by the call that just returned
StopJustReturned ==
    /\ lastEvent.op = "call"
    /\ lastEvent.arg.name \in {"stopRecording", "resetRecording"}
    /\ mediaRecorderRef # 0
    /\ recorders[mediaRecorderRef].state = "stopping"

\* C25 as stated: when stopRecording or resetRecording returns from stopping
\* a capture, the tracks of the session's stream are already stopped.
C25_ReleasedWhenStopReturns ==
    StopJustReturned => ~streams[recorders[mediaRecorderRef].stream].open

\* C25: the stream of a stopped session is released by the recorder's stop
\* event: its tracks are live until onstop runs and stopped once by it.
C25_ReleasedByStopEvent ==
    \A r \in DOMAIN recorders :
       LET stream == streams[recorders[r].stream]
       IN  /\ recorders[r].state = "stopping" => (stream.open /\ stream.stops = 0)
           /\ recorders[r].state = "inactive" => (~stream.open /\ stream.stops = 1)

C25_Witness ==
    /\ lastEvent.op = "recorderStopped"
    /\ \E r \in DOMAIN recorders :
          /\ recorders[r].state = "inactive" /\ recorders[r].stopCalls = 1
          /\ ~streams[recorders[r].stream].open

\* C26: while a session records, audioBlob and audioUrl do not hold the
\* result of an earlier session.
C26_StartDiscardsPreviousResult ==
    \A r \in DOMAIN recorders :
       recorders[r].state = "recording" =>
          /\ st.audioBlob = NoBlob \/ st.audioBlob.id >= r
          /\ st.audioUrl = 0 \/ st.audioUrl >= r

\* C27: the blob of a finalized session holds exactly the non-empty chunks
\* of that session, in capture order.
C27_BlobIsSessionChunks ==
    \A r \in DOMAIN recorders :
       recorders[r].state = "inactive" => recorders[r].blob = recorders[r].captured

\* a direct call of transcribeAudio met a response with a 2xx status
ApiTranscribeAnswered ==
    /\ api.fn = "transcribeAudio"
    /\ api.response.kind = "response" /\ OkStatus(api.response.status)

\* the transcript of the claim: from the nested body when there is one,
\* otherwise from the flat body; its transcription, else its text, else ''
ClaimedTranscript(r) ==
    LET body == IF r.nested.kind \in {"object", "string"} THEN r.nested ELSE r
    IN  IF body.transcription \notin {Absent, ""} THEN body.transcription
        ELSE IF body.text \notin {Absent, ""} THEN body.text
        ELSE ""

\* C30 as stated: on every successful response transcribeAudio returns
\* success:true with the transcript of the nested body when present, else of
\* the flat body: its transcription field, else its text field, else ''.
C30_TranscriptFromEitherShape ==
    ApiTranscribeAnswered =>
        /\ api.result.success
        /\ api.result.transcription = ClaimedTranscript(api.response)

\* C30 amended: the same for every successful response whose body is not
\* the JSON value null.
C30_TranscriptFromNonNullBody ==
    (ApiTranscribeAnswered /\ api.response.body # "null") =>
        /\ api.result.success
        /\ api.result.transcription = ClaimedTranscript(api.response)

C30_Witness ==
    /\ ApiTranscribeAnswered
    /\ api.response.transcription = "hello world"
    /\ api.response.nested = Nested("object", Absent, "hey")
    /\ api.result = [transcription |-> "hey", success |-> TRUE, error |-> Absent]

(***************************************************************************)
(* The component under the scheduling the platform provides: React commits *)
(* every scheduled render.  That every request settles is the assumption   *)
(* of the property checked here (the network call completes or times out): *)
(* axios resolves or rejects when the server answers and gives up after    *)
(* `timeout` ms (line 34) when that prop, default 60000 (line 176), is     *)
(* positive; with timeout = 0 axios sets no limit and a request the server *)
(* never answers stays in flight, a behaviour outside this specification.  *)
(***************************************************************************)
\* the steps of Next, the user and the host limited to MaxLiveInputs inputs
LiveNext ==
    \/ Mount
    \/ Render
    \/ (nInputs < MaxLiveInputs /\ SetProps)
    \/ ProbeDone
    \/ (nInputs < MaxLiveInputs /\ Click)
    \/ PermissionGranted
    \/ PermissionDenied
    \/ StreamResolved
    \/ StreamRejected
    \/ DataAvailable
    \/ RecorderStopped
    \/ TranscribeDone
    \/ RecognitionStart
    \/ RecognitionResult
    \/ RecognitionError
    \/ RecognitionEnd

\* (a Render step always changes view, a TranscribeDone step always attempts)
LiveSpec ==
    Init /\ [][LiveNext]_vars /\ WF_view(Render) /\ WF_attempts(TranscribeDone)

\* a request leaves the set of requests in flight
AttemptReturns == attempts' # attempts /\ attempts' \subseteq attempts

\* the step is the continuation of handleTranscribe: the result went to
\* onTranscriptionComplete or onError and isTranscribing was set to false
Delivered ==
    /\ lastEvent'.op = "transcribeDone"
    /\ Len(lastEvent'.calls) >= 1
    /\ lastEvent'.calls[1].cb \in {"onTranscriptionComplete", "onError"}
    /\ lastEvent'.calls[1].cb \in callsMade'
    /\ ~st'.isTranscribing

\* C29: a request in flight is never dropped: whenever requests are in
\* flight they all eventually return, whatever happens to the configuration
\* or the blob meanwhile, and a request returns only by delivering its
\* result to a callback and setting isTranscribing to false.
C29_AttemptAlwaysDelivered ==
    /\ (attempts # {}) ~> (attempts = {})
    /\ [][AttemptReturns => Delivered]_vars

\* a result is delivered for a request sent with a credential that the
\* component no longer holds
C29_Witness ==
    /\ lastEvent.op = "transcribeDone"
    /\ lastEvent.auth.present /\ st.token = NoToken
    /\ Len(lastEvent.calls) >= 1
    /\ ~st.isTranscribing

\* the continuation of a startRecording whose getUserMedia was refused: by
\* the permission request of line 72 or by the capture request of line 76
StartRecordingFails ==
    lastEvent'.op \in {"permissionDenied", "streamRejected"}

\* C31: when permission is denied or the device is unavailable,
\* startRecording starts nothing (no recorder, no timer, isRecording and the
\* recorder ref untouched) and leaves the failure in the hook's error string.
C31_StartFailsSilently ==
    [][ StartRecordingFails =>
          /\ recorders' = recorders /\ mediaRecorderRef' = mediaRecorderRef
          /\ timers' = timers /\ timerRef' = timerRef
          /\ st'.isRecording = st.isRecording
          /\ (recorders = <<>> => ~st'.isRecording)
          /\ st'.hookError =
                IF lastEvent'.op = "permissionDenied"
                THEN PermissionDeniedMsg ELSE DeviceErrorMsg ]_vars

C31_Witness ==
    /\ lastEvent.op = "streamRejected"
    /\ st.hookError = DeviceErrorMsg /\ st.hasPermission = "true"
    /\ ~st.isRecording /\ recorders = <<>> /\ timers = 0

\* C32: whenever a recording is in progress the primary control is enabled.
C32_RecordingCanBeStopped ==
    (mounted /\ st.isRecording) => ~IsDisabled(st)

\* C33: in on-device mode start() is never called on a recognizer that is
\* already started, and at most one recognizer is active at a time.
C33_RecognizerStartedOnlyWhenIdle ==
    /\ ~(lastEvent.op = "click" /\ lastEvent.arg.name = "recognition.start throws")
    /\ Cardinality({r \in DOMAIN recognizers :
                       recognizers[r] \in {"starting", "listening"}}) <= 1

\* C34: isTranscribing is true exactly when a request is in flight.
C34_TranscribingIffInFlight ==
    mounted => (st.isTranscribing <=> attempts # {})

\* C35: every open capture stream belongs to a recorder that has not yet
\* handled its stop event.
C35_NoOrphanStream ==
    \A i \in DOMAIN streams :
       streams[i].open =>
          \E r \in DOMAIN recorders :
             /\ recorders[r].stream = i
             /\ recorders[r].state \in {"recording", "stopping"}

\* a direct call of transcribeAudio met a response whose body carries an
\* error field, whatever its status
ServerSignalsFailure ==
    /\ api.fn = "transcribeAudio"
    /\ api.response.kind = "response" /\ api.response.body = "object"
    /\ Truthy(api.response.error)

\* C36: a response whose body carries an error field yields success:false
\* from transcribeAudio, and handleTranscribe answers such a result with
\* onError, never with onTranscriptionComplete.
C36_ServerFailureReported ==
    ServerSignalsFailure =>
        /\ ~api.result.success
        /\ \A i \in DOMAIN HandleTranscribeCalls(api.result, FALSE) :
              HandleTranscribeCalls(api.result, FALSE)[i].cb = "onError"

====
